---- MODULE Spec2Model ----
(***************************************************************************)
(* Stock watchlist monitor (api/index.py and api/main.py).                 *)
(*                                                                         *)
(* Both variants keep one module-level dict stock_watchlist and route a    *)
(* request to restart / add / check.  The variable impl says which of the  *)
(* two files is running; it never changes during a behaviour.              *)
(*                                                                         *)
(* Strings are sequences of one-character strings, so that the regular     *)
(* expressions and float() of the source are modelled by what they do.     *)
(* Prices are fixed-point decimals: the integer v stands for v / Scale.    *)
(*                                                                         *)
(* Spec handles one request per step.  SpecMonitor calls one method of     *)
(* StockMonitor on one input.  SpecSteps and SpecThreads cut a pass into   *)
(* its loop iterations, on one thread and on two threads.                  *)
(***************************************************************************)
EXTENDS Integers, Sequences, FiniteSets, TLC

VARIABLES
    impl,              \* "index" (api/index.py) or "main" (api/main.py)
    stock_watchlist,   \* the global dict, as its sequence of items
    request,           \* the request handled last
    response,          \* what handler returned for it
    watchlist_before,  \* stock_watchlist when that request arrived
    fetch_calls,       \* get_stock_price calls made for it, with results
    sell_calls,        \* send_sell_request calls made for it
    call,              \* one call of a StockMonitor method, traced alone
    workers,           \* per thread: the request in progress, step by step
    sold_ok,           \* symbols sold successfully and not added since
    served             \* requests the threads have taken, up to MaxRequests

vars == <<impl, stock_watchlist, request, response, watchlist_before,
          fetch_calls, sell_calls, call, workers, sold_ok, served>>

----------------------------------------------------------------------------
(* Bounds *)

\* number of requests that the two threads of SpecThreads take together
MaxRequests == 4

\* number of decimal places kept by the fixed-point prices
FracDigits == 2

RECURSIVE Pow10(_)
Pow10(n) == IF n = 0 THEN 1 ELSE 10 * Pow10(n - 1)

Scale == Pow10(FracDigits)

----------------------------------------------------------------------------
(* Characters and literal strings of the source *)

Upper == {"A","B","C","D","E","F","G","H","I","J","K","L","M",
          "N","O","P","Q","R","S","T","U","V","W","X","Y","Z"}

DigitSeq == <<"0","1","2","3","4","5","6","7","8","9">>

Digit == {DigitSeq[i] : i \in 1..10}

DigitVal(c) == (CHOOSE i \in 1..10 : DigitSeq[i] = c) - 1

\* the character class [0-9.] of the price pattern
DigitDot == Digit \cup {"."}

sStockName == <<"s","t","o","c","k","N","a","m","e","=">>

sPrice == <<"p","r","i","c","e","=">>

sRestart == <<"/","r","e","s","t","a","r","t">>

sCheck == <<"/","c","h","e","c","k">>

----------------------------------------------------------------------------
(* Python string operations *)

\* sub occurs in s starting at position i
OccursAt(s, sub, i) ==
    /\ i >= 1
    /\ i + Len(sub) - 1 <= Len(s)
    /\ \A j \in 1..Len(sub) : s[i + j - 1] = sub[j]

\* sub in s
Contains(s, sub) == \E i \in 1..(Len(s) + 1) : OccursAt(s, sub, i)

\* s.endswith(sub)
EndsWith(s, sub) == OccursAt(s, sub, Len(s) - Len(sub) + 1)

\* s.replace(',', '')
RECURSIVE RemoveCommas(_)
RemoveCommas(s) ==
    IF s = <<>> THEN <<>>
    ELSE IF Head(s) = "," THEN RemoveCommas(Tail(s))
    ELSE <<Head(s)>> \o RemoveCommas(Tail(s))

\* s.strip()
RECURSIVE Strip(_)
Strip(s) ==
    IF s = <<>> THEN <<>>
    ELSE IF Head(s) = " " THEN Strip(Tail(s))
    ELSE IF s[Len(s)] = " " THEN Strip(SubSeq(s, 1, Len(s) - 1))
    ELSE s

\* length of the longest prefix of s[i..] made of characters of class
RECURSIVE RunLen(_, _, _)
RunLen(s, i, class) ==
    IF i <= Len(s) /\ s[i] \in class THEN 1 + RunLen(s, i + 1, class) ELSE 0

\* the digits of s read as a decimal integer
RECURSIVE DigitsValue(_)
DigitsValue(s) ==
    IF s = <<>> THEN 0
    ELSE 10 * DigitsValue(SubSeq(s, 1, Len(s) - 1)) + DigitVal(s[Len(s)])

\* the first FracDigits fractional digits of s, as an integer
FracValue(s) ==
    LET n == IF Len(s) < FracDigits THEN Len(s) ELSE FracDigits
    IN  DigitsValue(SubSeq(s, 1, n)) * Pow10(FracDigits - n)

\* float(s) on an unsigned text: digits with at most one point and at least
\* one digit; anything else raises ValueError (ok = FALSE)
ParseUnsigned(s) ==
    LET ip == RunLen(s, 1, Digit)
        hasDot == ip < Len(s) /\ s[ip + 1] = "."
        fp == IF hasDot THEN RunLen(s, ip + 2, Digit) ELSE 0
        used == ip + (IF hasDot THEN 1 + fp ELSE 0)
    IN  IF used = Len(s) /\ ip + fp >= 1
        THEN [ok |-> TRUE,
              val |-> DigitsValue(SubSeq(s, 1, ip)) * Scale
                      + FracValue(SubSeq(s, ip + 2, ip + 1 + fp))]
        ELSE [ok |-> FALSE, val |-> 0]

\* float(s): optional sign, then an unsigned decimal
ParseFloat(s) ==
    IF s # <<>> /\ Head(s) = "-"
    THEN LET r == ParseUnsigned(Tail(s))
         IN  [ok |-> r.ok, val |-> 0 - r.val]
    ELSE IF s # <<>> /\ Head(s) = "+" THEN ParseUnsigned(Tail(s))
    ELSE ParseUnsigned(s)

\* re.search(r'stockName=([A-Z]{3,4})', s) matches at position i
StockMatchAt(s, i) ==
    /\ OccursAt(s, sStockName, i)
    /\ RunLen(s, i + Len(sStockName), Upper) >= 3

\* the pattern [A-Z]{2,4} in place of [A-Z]{3,4}
StockSearch_min2(s) ==
    LET hits == {i \in 1..Len(s) :
                    /\ OccursAt(s, sStockName, i)
                    /\ RunLen(s, i + Len(sStockName), Upper) >= 2}
    IN  IF hits = {} THEN [found |-> FALSE, group |-> <<>>]
        ELSE LET i == CHOOSE h \in hits : \A k \in hits : h <= k
                 b == i + Len(sStockName)
                 n == IF RunLen(s, b, Upper) >= 4 THEN 4
                      ELSE RunLen(s, b, Upper)
             IN  [found |-> TRUE, group |-> SubSeq(s, b, b + n - 1)]

\* re.search(r'stockName=([A-Z]{3,4})', s): found, and group(1)
StockSearch(s) ==
    LET hits == {i \in 1..Len(s) : StockMatchAt(s, i)}
    IN  IF hits = {} THEN [found |-> FALSE, group |-> <<>>]
        ELSE LET i == CHOOSE h \in hits : \A k \in hits : h <= k
                 b == i + Len(sStockName)
                 n == IF RunLen(s, b, Upper) >= 4 THEN 4 ELSE 3
             IN  [found |-> TRUE, group |-> SubSeq(s, b, b + n - 1)]

\* re.search(r'price=([0-9.]+)', s) matches at position i
PriceMatchAt(s, i) ==
    /\ OccursAt(s, sPrice, i)
    /\ RunLen(s, i + Len(sPrice), DigitDot) >= 1

\* re.search(r'price=([0-9.]+)', s): found, and group(1)
PriceSearch(s) ==
    LET hits == {i \in 1..Len(s) : PriceMatchAt(s, i)}
    IN  IF hits = {} THEN [found |-> FALSE, group |-> <<>>]
        ELSE LET i == CHOOSE h \in hits : \A k \in hits : h <= k
                 b == i + Len(sPrice)
             IN  [found |-> TRUE,
                  group |-> SubSeq(s, b, b + RunLen(s, b, DigitDot) - 1)]

----------------------------------------------------------------------------
(* The dict stock_watchlist: insertion-ordered, one entry per key *)

Keys(w) == {w[i].stock : i \in 1..Len(w)}

HasKey(w, k) == \E i \in 1..Len(w) : w[i].stock = k

\* w[k]
Get(w, k) == w[CHOOSE i \in 1..Len(w) : w[i].stock = k].target

\* a list that is appended to instead of a dict
SetItem_append(w, k, v) == Append(w, [stock |-> k, target |-> v])

\* w[k] = v
SetItem(w, k, v) ==
    IF HasKey(w, k)
    THEN [i \in 1..Len(w) |->
             IF w[i].stock = k THEN [stock |-> k, target |-> v] ELSE w[i]]
    ELSE Append(w, [stock |-> k, target |-> v])

\* the keys of ks stay in the dict
DelAll_none(w, ks) == w

\* del w[k] for every k of ks
RECURSIVE DelAll(_, _)
DelAll(w, ks) ==
    IF w = <<>> THEN <<>>
    ELSE IF Head(w).stock \in ks THEN DelAll(Tail(w), ks)
    ELSE <<Head(w)>> \o DelAll(Tail(w), ks)

----------------------------------------------------------------------------
(* StockMonitor: price fetcher and sell dispatcher *)

\* What the outside world answers to one HTTP GET: the call raises
\* (timeout, connection failure), or a response with a status arrives.
\* A page is described by the text of its first h3 element whose class
\* contains dyRciG (h3 = <<>> when there is none) and by the candidates
\* that the fallback patterns of main.py find in it, in pattern order and
\* then match order.  The prices are chosen away from the exact 1% boundary
\* and from rounding ties, where binary floating point and decimal
\* arithmetic need not agree.
NoPage == [h3 |-> <<>>, cands |-> <<>>]

t199 == <<"1","9","9">>

t198 == <<"1","9","8">>

t2120 == <<"2",",","1","2","0">>

FetchOutcomes ==
    { [kind |-> "raise", status |-> 0, page |-> NoPage],
      [kind |-> "http", status |-> 404, page |-> NoPage],
      [kind |-> "http", status |-> 200, page |-> [h3 |-> <<t198>>, cands |-> <<>>]],
      [kind |-> "http", status |-> 200, page |-> [h3 |-> <<t199>>, cands |-> <<t199>>]],
      [kind |-> "http", status |-> 200, page |-> [h3 |-> <<>>, cands |-> <<t2120>>]] }

SellOutcomes ==
    { [kind |-> "raise", status |-> 0],
      [kind |-> "http", status |-> 200],
      [kind |-> "http", status |-> 500] }

\* no answer: the dispatcher is not called for this item
NotCalled == [kind |-> "none", status |-> 0]

\* first candidate of cands[i..] whose value lies in [1, 100000], else 0.0
RECURSIVE FirstInRange(_, _)
FirstInRange(cands, i) ==
    IF i > Len(cands) THEN 0
    ELSE LET p == ParseFloat(RemoveCommas(cands[i]))
         IN  IF p.ok /\ 1 * Scale <= p.val /\ p.val <= 100000 * Scale
             THEN p.val
             ELSE FirstInRange(cands, i + 1)

\* StockMonitor.extract_price_from_html
extract_price_from_html(im, page) ==
    LET p == ParseFloat(RemoveCommas(Strip(page.h3[1])))
    IN  IF im = "index"
        THEN IF page.h3 # <<>> /\ p.ok THEN p.val ELSE 0
        ELSE IF page.h3 # <<>> /\ p.ok THEN p.val
             ELSE FirstInRange(page.cands, 1)

\* every 2xx response is parsed
get_stock_price_any2xx(im, fout) ==
    IF fout.kind = "http" /\ fout.status \in 200..299
    THEN extract_price_from_html(im, fout.page)
    ELSE 0

\* StockMonitor.get_stock_price
get_stock_price(im, fout) ==
    IF fout.kind = "http" /\ fout.status = 200
    THEN extract_price_from_html(im, fout.page)
    ELSE 0

\* every 2xx status counts as a success
send_sell_request_any2xx(sout) ==
    sout.kind = "http" /\ sout.status \in 200..299

\* StockMonitor.send_sell_request
send_sell_request(sout) == sout.kind = "http" /\ sout.status = 200

----------------------------------------------------------------------------
(* check_and_process_stocks *)

\* num / den rounded to the nearest integer, a tie going to the even one
RoundHalfEven(num, den) ==
    LET q == num \div den
        r == num % den
    IN  IF 2 * r < den THEN q
        ELSE IF 2 * r > den THEN q + 1
        ELSE IF q % 2 = 0 THEN q ELSE q + 1

\* 100 * num / den rounded to the nearest integer, computed from the whole
\* part and the remainder of num / den so that no product leaves 32 bits
RoundedHundredths(num, den) ==
    (num \div den) * 100 + RoundHalfEven((num % den) * 100, den)

\* round(price_diff_percent, 2), in hundredths of a percent
RoundedDiff(target, current) ==
    IF target > 0 THEN RoundedHundredths((target - current) * 100, target)
    ELSE RoundedHundredths((current - target) * 100, 0 - target)

\* the comparison made on the rounded value that is reported
DiffAtLeastOne_rounded(target, current) ==
    RoundedDiff(target, current) >= 100

\* price_diff_percent >= 1.0, with
\* price_diff_percent = ((target_price - current_price) / target_price) * 100
DiffAtLeastOne(target, current) ==
    IF target > 0 THEN (target - current) * 100 >= target
    ELSE (target - current) * 100 <= target

ErrorResult(sym) ==
    [stock |-> sym, has_error |-> TRUE, current_price |-> 0,
     target_price |-> 0, difference_percent |-> 0,
     sell_triggered |-> FALSE, has_sell_success |-> FALSE,
     sell_success |-> FALSE]

\* a result entry without error
PriceResult(sym, current_price, target_price, trig, sell_success) ==
    [stock |-> sym, has_error |-> FALSE,
     current_price |-> current_price, target_price |-> target_price,
     difference_percent |-> RoundedDiff(target_price, current_price),
     sell_triggered |-> trig,
     has_sell_success |-> trig,
     sell_success |-> trig /\ sell_success]

\* a triggered symbol is removed whether or not the sell succeeded
Evaluate_removeTriggered(sym, current_price, target_price, trig, sell_success) ==
    IF target_price = 0
    THEN [results |-> <<ErrorResult(sym)>>, sold |-> FALSE, remove |-> FALSE]
    ELSE [results |-> <<PriceResult(sym, current_price, target_price,
                                    trig, sell_success)>>,
          sold |-> trig,
          remove |-> trig]

\* the body of the for loop once current_price is known to be positive;
\* a target_price of 0 raises ZeroDivisionError, caught by the loop's except
Evaluate(sym, current_price, target_price, trig, sell_success) ==
    IF target_price = 0
    THEN [results |-> <<ErrorResult(sym)>>, sold |-> FALSE, remove |-> FALSE]
    ELSE [results |-> <<PriceResult(sym, current_price, target_price,
                                    trig, sell_success)>>,
          sold |-> trig,
          remove |-> trig /\ sell_success]

\* the threshold test is left out
SellCalled_always(entry, current_price) ==
    current_price > 0 /\ entry.target # 0

\* the loop body reaches monitor.send_sell_request for this item
SellCalled(entry, current_price) ==
    /\ current_price > 0
    /\ entry.target # 0
    /\ DiffAtLeastOne(entry.target, current_price)

\* the sentinel 0.0 is treated as a price
ProcessPrice_zeroIsPrice(entry, current_price, sout) ==
    IF current_price >= 0
    THEN Evaluate(entry.stock, current_price, entry.target,
                  SellCalled(entry, current_price),
                  send_sell_request(sout))
    ELSE [results |-> <<>>, sold |-> FALSE, remove |-> FALSE]

\* the body of the for loop for one (stock_symbol, target_price) item, given
\* the fetched price: the result entries appended, whether the dispatcher
\* was called, and whether the symbol was appended to stocks_to_remove
ProcessPrice(entry, current_price, sout) ==
    IF current_price > 0
    THEN Evaluate(entry.stock, current_price, entry.target,
                  SellCalled(entry, current_price),
                  send_sell_request(sout))
    ELSE [results |-> <<>>, sold |-> FALSE, remove |-> FALSE]

\* the body of the for loop for one item
ProcessStock(im, entry, fout, sout) ==
    ProcessPrice(entry, get_stock_price(im, fout), sout)

\* what one iteration adds to results, to the calls made and to
\* stocks_to_remove
Accumulate(acc, sym, price, one) ==
    [results |-> acc.results \o one.results,
     fetched |-> Append(acc.fetched, [stock |-> sym, price |-> price]),
     sold |-> IF one.sold THEN Append(acc.sold, sym) ELSE acc.sold,
     remove |-> IF one.remove THEN acc.remove \cup {sym} ELSE acc.remove]

\* the try statement encloses the whole loop: the first failing item ends
\* the pass
RECURSIVE ProcessFrom_abortOnError(_, _, _, _, _, _)
ProcessFrom_abortOnError(im, w, fo, so, i, acc) ==
    IF i > Len(w) THEN acc
    ELSE IF get_stock_price(im, fo[i]) > 0 /\ w[i].target = 0
         THEN Accumulate(acc, w[i].stock, get_stock_price(im, fo[i]),
                  ProcessStock(im, w[i], fo[i], NotCalled))
         ELSE ProcessFrom_abortOnError(im, w, fo, so, i + 1,
                  Accumulate(acc, w[i].stock, get_stock_price(im, fo[i]),
                      ProcessStock(im, w[i], fo[i],
                          IF i \in DOMAIN so THEN so[i] ELSE NotCalled)))

\* the for loop over stock_watchlist.items(), from item i on
RECURSIVE ProcessFrom(_, _, _, _, _, _)
ProcessFrom(im, w, fo, so, i, acc) ==
    IF i > Len(w) THEN acc
    ELSE ProcessFrom(im, w, fo, so, i + 1,
             Accumulate(acc, w[i].stock, get_stock_price(im, fo[i]),
                 ProcessStock(im, w[i], fo[i],
                     IF i \in DOMAIN so THEN so[i] ELSE NotCalled)))

\* the items of the pass for which the dispatcher is called, and so has to
\* answer
SellPositions(im, w, fo) ==
    {i \in 1..Len(w) : SellCalled(w[i], get_stock_price(im, fo[i]))}

\* the return value of a pass over a non-empty watchlist, and the watchlist
\* once the symbols of stocks_to_remove are deleted
PassResult(w, p) ==
    [message |-> "", has_results |-> TRUE,
     results |-> p.results, watchlist |-> DelAll(w, p.remove),
     fetched |-> p.fetched, sold |-> p.sold]

\* the empty watchlist is not short-circuited
check_and_process_stocks_noShortCircuit(im, w, fo, so) ==
    PassResult(w, ProcessFrom(im, w, fo, so, 1,
        [results |-> <<>>, fetched |-> <<>>, sold |-> <<>>, remove |-> {}]))

\* check_and_process_stocks: the returned dict, the watchlist afterwards and
\* the calls made to the fetcher and the dispatcher
check_and_process_stocks(im, w, fo, so) ==
    IF w = <<>>
    THEN [message |-> "No stocks in watchlist", has_results |-> FALSE,
          results |-> <<>>, watchlist |-> w,
          fetched |-> <<>>, sold |-> <<>>]
    ELSE PassResult(w, ProcessFrom(im, w, fo, so, 1,
             [results |-> <<>>, fetched |-> <<>>, sold |-> <<>>,
              remove |-> {}]))

----------------------------------------------------------------------------
(* Responses *)

\* A response dict.  Keys that a response does not carry hold "" , 0 or <<>>
\* and their has_ flag is FALSE; returned = FALSE is Python's None (the
\* handler fell off its end without a return statement).
BlankResponse ==
    [returned |-> TRUE, statusCode |-> 0, message |-> "", error |-> "",
     stock |-> <<>>, target_price |-> 0,
     has_watchlist |-> FALSE, watchlist |-> <<>>,
     has_results |-> FALSE, results |-> <<>>]

NoneResponse == [BlankResponse EXCEPT !.returned = FALSE]

MessageResponse(code, msg) ==
    [BlankResponse EXCEPT !.statusCode = code, !.message = msg]

ErrorResponse(code, msg) ==
    [BlankResponse EXCEPT !.statusCode = code, !.error = msg]

----------------------------------------------------------------------------
(* Request handlers: the response and the watchlist afterwards *)

\* the response is built but the dict is not cleared
handle_restart_keep(w) ==
    [response |-> [MessageResponse(200, "Stock watchlist cleared")
                      EXCEPT !.has_watchlist = TRUE, !.watchlist = <<>>],
     watchlist |-> w]

\* handle_restart
handle_restart(w) ==
    [response |-> [MessageResponse(200, "Stock watchlist cleared")
                      EXCEPT !.has_watchlist = TRUE, !.watchlist = <<>>],
     watchlist |-> <<>>]

\* handle_add_stock: index.py reads the price from the path, main.py from
\* the query string; float() raising ValueError is a 500 in index.py and a
\* 400 in main.py
handle_add_stock(im, w, path, query) ==
    LET stock_match == StockSearch(path)
        price_match == PriceSearch(IF im = "index" THEN path ELSE query)
        parsed == ParseFloat(price_match.group)
        stock_symbol == stock_match.group
        target_price == parsed.val
        after == SetItem(w, stock_symbol, target_price)
    IN  IF ~stock_match.found
        THEN [response |-> ErrorResponse(400,
                  "Invalid stock name format. Use 3-4 letter code."),
              watchlist |-> w]
        ELSE IF ~price_match.found
        THEN [response |-> ErrorResponse(400, "Price parameter is required"),
              watchlist |-> w]
        ELSE IF ~parsed.ok
        THEN [response |->
                  IF im = "index"
                  THEN ErrorResponse(500, "could not convert string to float")
                  ELSE ErrorResponse(400, "Invalid price format"),
              watchlist |-> w]
        ELSE [response |->
                  [MessageResponse(200, "Added to watchlist")
                      EXCEPT !.stock = stock_symbol,
                             !.target_price = target_price,
                             !.has_watchlist = TRUE, !.watchlist = after],
              watchlist |-> after]

\* json.dumps(result) with status 200
CheckResponse(result) ==
    [response |->
         [MessageResponse(200, result.message)
             EXCEPT !.has_results = result.has_results,
                    !.results = result.results,
                    !.has_watchlist = result.has_results,
                    !.watchlist = IF result.has_results
                                  THEN result.watchlist ELSE <<>>],
     watchlist |-> result.watchlist,
     fetched |-> result.fetched, sold |-> result.sold]

\* handle_check_stocks
handle_check_stocks(im, w, fo, so) ==
    CheckResponse(check_and_process_stocks(im, w, fo, so))

\* handler: which branch of the if chain a request takes
Route(im, r) ==
    IF im = "index"
    THEN IF r.method = "GET"
         THEN IF r.path = sRestart THEN "restart"
              ELSE IF Contains(r.path, sStockName) THEN "add"
              ELSE IF r.path = sCheck THEN "check"
              ELSE "other"
         ELSE IF r.method = "POST" THEN "post"
         ELSE "none"
    ELSE IF r.path = sRestart \/ EndsWith(r.path, sRestart) THEN "restart"
         ELSE IF Contains(r.path, sStockName) THEN "add"
         ELSE IF r.path = sCheck \/ EndsWith(r.path, sCheck) THEN "check"
         ELSE "other"

----------------------------------------------------------------------------
(* The requests the model sends *)

nAB == <<"A","B">>

nABC == <<"A","B","C">>

nABCD == <<"A","B","C","D">>

nABCDE == <<"A","B","C","D","E">>

\* values of stockName=
Names == {nAB, nABC, nABCD, nABCDE}

\* values of price=
p201 == <<"2","0","1">>

PriceTexts ==
    { p201, <<"0">>, <<"1",".","5">>, <<"1",".","2",".","3">>, <<".">> }

Req(m, p, q) == [method |-> m, path |-> p, query |-> q]

NoRequest == Req("", <<>>, <<>>)

AddPath(n) == <<"/">> \o sStockName \o n

PricePath(n, p) == AddPath(n) \o <<"&">> \o sPrice \o p

\* add requests: no price at all; the price both in the path (where index.py
\* looks for it) and in the query string (where main.py does); the price in
\* only one of the two places
AddRequests ==
    {Req("GET", AddPath(n), <<>>) : n \in Names}
    \cup {Req("GET", PricePath(n, p), sPrice \o p) :
             n \in Names, p \in PriceTexts}
    \cup {Req("GET", PricePath(nABC, p201), <<>>),
          Req("GET", AddPath(nABC), sPrice \o p201)}

FixedPaths ==
    {sRestart, sCheck, <<"/">>, <<"/","a","p","i">> \o sCheck,
     AddPath(nABC) \o sRestart}

Requests ==
    AddRequests
    \cup {Req("GET", p, <<>>) : p \in FixedPaths}
    \cup {Req("POST", p, <<>>) : p \in {sRestart, sCheck}}
    \cup {Req("POST", PricePath(nABC, p201), sPrice \o p201),
          Req("PUT", sRestart, <<>>)}

\* the requests that handler sends down each branch of its if chain
Routed ==
    [im \in {"index", "main"},
     k \in {"restart", "add", "check", "other", "post", "none"} |->
        {r \in Requests : Route(im, r) = k}]

----------------------------------------------------------------------------
(* Actions: one request handled from start to end *)

\* no StockMonitor method is traced on its own
NoCall ==
    [fn |-> "none", html |-> <<>>, reply |-> [kind |-> "none", status |-> 0],
     done |-> FALSE, raised |-> FALSE, price |-> 0, sent |-> FALSE]

\* the threads on which the host may run handler
Threads == {1, 2}

\* results, calls made and stocks_to_remove before the first item
EmptyAcc == [results |-> <<>>, fetched |-> <<>>, sold |-> <<>>, remove |-> {}]

\* a thread that handles no request.  While a thread is inside the for loop
\* of check_and_process_stocks (pc = "loop"), started is the watchlist when
\* the loop began, size the dict size its iterator remembers, pos the
\* number of items it has yielded, dirty whether a key was inserted or
\* deleted since, and acc what the loop has collected.
IdleWorker ==
    [pc |-> "idle", request |-> NoRequest, response |-> NoneResponse,
     started |-> <<>>, sold_before |-> {}, size |-> 0, pos |-> 0,
     dirty |-> FALSE, acc |-> EmptyAcc]

Init ==
    /\ impl \in {"index", "main"}
    /\ stock_watchlist = <<>>
    /\ request = NoRequest
    /\ response = NoneResponse
    /\ watchlist_before = <<>>
    /\ fetch_calls = <<>>
    /\ sell_calls = <<>>
    /\ call = NoCall
    /\ workers = [t \in Threads |-> IdleWorker]
    /\ sold_ok = {}
    /\ served = 0

Restart ==
    \E r \in Routed[impl, "restart"] :
        /\ \E h \in {handle_restart(stock_watchlist)} :
               /\ stock_watchlist' = h.watchlist
               /\ response' = h.response
        /\ request' = r
        /\ watchlist_before' = stock_watchlist
        /\ fetch_calls' = <<>>
        /\ sell_calls' = <<>>
        /\ UNCHANGED <<impl, call, workers, sold_ok, served>>

AddStock ==
    \E r \in Routed[impl, "add"] :
        /\ \E h \in {handle_add_stock(impl, stock_watchlist, r.path, r.query)} :
               /\ stock_watchlist' = h.watchlist
               /\ response' = h.response
        /\ request' = r
        /\ watchlist_before' = stock_watchlist
        /\ fetch_calls' = <<>>
        /\ sell_calls' = <<>>
        /\ UNCHANGED <<impl, call, workers, sold_ok, served>>

CheckStocks ==
    \E r \in Routed[impl, "check"] :
        /\ \E fo \in [1..Len(stock_watchlist) -> FetchOutcomes] :
           \E so \in [SellPositions(impl, stock_watchlist, fo) -> SellOutcomes] :
              \E h \in {handle_check_stocks(impl, stock_watchlist, fo, so)} :
                  /\ stock_watchlist' = h.watchlist
                  /\ response' = h.response
                  /\ fetch_calls' = h.fetched
                  /\ sell_calls' = h.sold
        /\ request' = r
        /\ watchlist_before' = stock_watchlist
        /\ UNCHANGED <<impl, call, workers, sold_ok, served>>

\* the final else of the if chain: 404 in index.py, the endpoint list with
\* current_watchlist in main.py
Other ==
    \E r \in Routed[impl, "other"] :
        /\ response' =
             IF impl = "index" THEN MessageResponse(404, "Not found")
             ELSE [MessageResponse(200, "Stock Monitor API")
                      EXCEPT !.has_watchlist = TRUE,
                             !.watchlist = stock_watchlist]
        /\ request' = r
        /\ watchlist_before' = stock_watchlist
        /\ fetch_calls' = <<>>
        /\ sell_calls' = <<>>
        /\ UNCHANGED <<impl, stock_watchlist, call, workers, sold_ok, served>>

\* index.py: elif method == 'POST'
PostReceived ==
    \E r \in Routed[impl, "post"] :
        /\ response' = MessageResponse(200, "POST received")
        /\ request' = r
        /\ watchlist_before' = stock_watchlist
        /\ fetch_calls' = <<>>
        /\ sell_calls' = <<>>
        /\ UNCHANGED <<impl, stock_watchlist, call, workers, sold_ok, served>>

\* index.py: a method that is neither GET nor POST matches no branch and
\* handler returns None
NoBranch ==
    \E r \in Routed[impl, "none"] :
        /\ response' = NoneResponse
        /\ request' = r
        /\ watchlist_before' = stock_watchlist
        /\ fetch_calls' = <<>>
        /\ sell_calls' = <<>>
        /\ UNCHANGED <<impl, stock_watchlist, call, workers, sold_ok, served>>

Next == Restart \/ AddStock \/ CheckStocks \/ Other \/ PostReceived \/ NoBranch

Spec == Init /\ [][Next]_vars

----------------------------------------------------------------------------
(* What a request says, read off the request alone *)

Delimiters == {"&", "?", "/"}

\* the text that follows the first occurrence of key in s, up to the next
\* delimiter
ParamValue(s, key) ==
    LET at == {i \in 1..Len(s) : OccursAt(s, key, i)}
        i == CHOOSE h \in at : \A k \in at : h <= k
        b == i + Len(key)
        ends == {j \in b..Len(s) : s[j] \in Delimiters}
        e == IF ends = {} THEN Len(s) + 1
             ELSE CHOOSE j \in ends : \A k \in ends : j <= k
    IN  SubSeq(s, b, e - 1)

\* the value of stockName= in the path
NameOf(r) == ParamValue(r.path, sStockName)

HasPriceParam(r) == Contains(r.path, sPrice) \/ Contains(r.query, sPrice)

\* the value of price=, in the path or else in the query string
PriceOf(r) ==
    IF Contains(r.path, sPrice) THEN ParamValue(r.path, sPrice)
    ELSE ParamValue(r.query, sPrice)

AllUpper(n) == \A i \in 1..Len(n) : n[i] \in Upper

\* exactly 3 or 4 uppercase letters
ValidSymbol(n) == AllUpper(n) /\ Len(n) \in {3, 4}

\* an unsigned decimal number
WellFormedPrice(t) == /\ t # <<>>
                      /\ \A i \in 1..Len(t) : t[i] \in DigitDot
                      /\ Cardinality({i \in 1..Len(t) : t[i] = "."}) <= 1
                      /\ \E i \in 1..Len(t) : t[i] \in Digit

\* the request handled last was an add request / an evaluation pass
IsAdd == request # NoRequest /\ Route(impl, request) = "add"

IsCheck == request # NoRequest /\ Route(impl, request) = "check"

\* the items of w other than the one of symbol k
Others(w, k) == SelectSeq(w, LAMBDA e : e.stock # k)

\* the positions of symbol k in w
Positions(w, k) == {i \in 1..Len(w) : w[i].stock = k}

\* the result entries of the last response, and the calls of the last pass
Results == {response.results[i] : i \in 1..Len(response.results)}

Fetches == {fetch_calls[i] : i \in 1..Len(fetch_calls)}

Sells == {sell_calls[i] : i \in 1..Len(sell_calls)}

----------------------------------------------------------------------------
(* Properties *)

\* C1: an add request with a valid 3-4 uppercase-letter symbol s and a numeric
\* price p that returns 200 leaves the watchlist mapping s to exactly p, with
\* exactly one entry for s, and every entry for another symbol as it was.
C1_AddIsUpsert ==
    (/\ IsAdd
     /\ response.statusCode = 200
     /\ ValidSymbol(NameOf(request))
     /\ HasPriceParam(request)
     /\ WellFormedPrice(PriceOf(request)))
    => LET s == NameOf(request)
           p == ParseFloat(PriceOf(request)).val
       IN  /\ Cardinality(Positions(stock_watchlist, s)) = 1
           /\ Get(stock_watchlist, s) = p
           /\ Others(stock_watchlist, s) = Others(watchlist_before, s)

\* an add of ABC at a new price while ABC was already listed before ABCD
C1_Witness ==
    /\ IsAdd
    /\ response.statusCode = 200
    /\ NameOf(request) = nABC
    /\ PriceOf(request) = <<"1",".","5">>
    /\ Len(stock_watchlist) = 2
    /\ stock_watchlist[1] = [stock |-> nABC, target |-> 15 * Pow10(FracDigits - 1)]
    /\ stock_watchlist[2].stock = nABCD
    /\ watchlist_before[1].target = 201 * Scale

\* C2: a /restart request returns 200 and leaves the watchlist empty, whatever
\* the watchlist was when it arrived.
C2_RestartEmpties ==
    (request.method = "GET" /\ request.path = sRestart)
    => /\ response.returned
       /\ response.statusCode = 200
       /\ stock_watchlist = <<>>

\* a restart that arrived while two symbols were listed
C2_Witness ==
    /\ request.method = "GET"
    /\ request.path = sRestart
    /\ Len(watchlist_before) = 2
    /\ stock_watchlist = <<>>
    /\ response.statusCode = 200

\* the symbols whose result entry reports a triggered and successful sell
SoldOK ==
    {e.stock : e \in {x \in Results :
        ~x.has_error /\ x.sell_triggered /\ x.has_sell_success /\ x.sell_success}}

\* the symbols whose result entry reports a triggered and failed sell
SoldFailed ==
    {e.stock : e \in {x \in Results :
        ~x.has_error /\ x.sell_triggered /\ ~x.sell_success}}

\* C3: after an evaluation pass over a non-empty watchlist W the watchlist is
\* W minus exactly the symbols whose sell was triggered and reported
\* successful; a symbol whose dispatch failed stays with its target price.
C3_RemovedAreSoldOK ==
    (IsCheck /\ watchlist_before # <<>>)
    => /\ stock_watchlist =
              SelectSeq(watchlist_before, LAMBDA e : e.stock \notin SoldOK)
       /\ response.watchlist = stock_watchlist
       /\ \A k \in SoldFailed :
              /\ HasKey(stock_watchlist, k)
              /\ Get(stock_watchlist, k) = Get(watchlist_before, k)

\* a pass in which one symbol was sold and the sell of the other one failed
C3_Witness ==
    /\ IsCheck
    /\ Len(watchlist_before) = 2
    /\ Len(stock_watchlist) = 1
    /\ SoldOK # {}
    /\ SoldFailed # {}

\* the result entries that carry no error
PriceResults == {e \in Results : ~e.has_error}

\* current is at least 1% below target: (target - current) / target >= 0.01
AtLeastOnePercentBelow(target, current) ==
    (target - current) * 100 >= target

\* d hundredths of a percent is within half a hundredth of
\* ((t - c) / t) * 100, that is 2 * |d * t - (t - c) * 10000| <= t, written
\* on the whole parts and remainders of d / 100 and (t - c) * 100 / t
NearestHundredth(d, t, c) ==
    LET x == (t - c) * 100
        off == 100 * t * ((d \div 100) - (x \div t))
                   + (d % 100) * t - 100 * (x % t)
    IN  2 * off <= t /\ 2 * (0 - off) <= t

\* C4 as stated: for every result entry without error, sell_triggered is true
\* exactly when the reported (rounded) difference_percent is >= 1.0.
C4_TriggerIffRoundedDiff ==
    IsCheck =>
        \A e \in PriceResults :
            e.sell_triggered <=> (e.difference_percent >= 100)

\* C4 amended: sell_triggered is true exactly when the unrounded difference
\* ((target - current) / target) * 100 is >= 1.0; the reported
\* difference_percent is that value rounded to the nearest hundredth, so a
\* triggered entry reports at least 1.0.
C4_TriggerIffExactDiff ==
    IsCheck =>
        \A e \in PriceResults :
            LET t == e.target_price
                c == e.current_price
            IN  /\ t > 0
                /\ e.sell_triggered <=> AtLeastOnePercentBelow(t, c)
                /\ NearestHundredth(e.difference_percent, t, c)
                /\ e.sell_triggered => e.difference_percent >= 100

\* one pass with a triggered entry (201 -> 198, reported 1.49) and an entry
\* that reports 1.0 and is not triggered (201 -> 199, unrounded 0.995...)
C4_Witness ==
    /\ IsCheck
    /\ \E e \in PriceResults :
          /\ e.difference_percent = 149
          /\ e.sell_triggered
          /\ e.current_price = 198 * Scale
    /\ \E e \in PriceResults :
          /\ e.difference_percent = 100
          /\ ~e.sell_triggered
          /\ e.target_price = 201 * Scale
          /\ e.current_price = 199 * Scale

\* C5: the dispatcher is called for a symbol only if the price fetched for it
\* in this pass is non-zero and at least 1% below its target; for a fetched
\* price that is not, no dispatch call is made, no sell is reported as
\* triggered (the entry says sell_triggered = false; with a target of 0 the
\* difference is undefined and the entry is an error entry), and the symbol
\* stays in the watchlist with its target.
C5_DispatchOnlyBelowThreshold ==
    IsCheck =>
        /\ \A k \in Sells : \E f \in Fetches : f.stock = k
        /\ \A f \in Fetches :
              LET t == Get(watchlist_before, f.stock)
              IN  /\ f.stock \in Sells
                        => f.price # 0 /\ AtLeastOnePercentBelow(t, f.price)
                  /\ (f.price # 0 /\ ~AtLeastOnePercentBelow(t, f.price))
                        => /\ f.stock \notin Sells
                           /\ \A e \in Results :
                                 e.stock = f.stock => ~e.sell_triggered
                           /\ t # 0 => \E e \in PriceResults :
                                 e.stock = f.stock /\ ~e.sell_triggered
                           /\ HasKey(stock_watchlist, f.stock)
                           /\ Get(stock_watchlist, f.stock) = t

\* a pass in which one symbol is dispatched and sold while the other one,
\* fetched above its target, is not dispatched and stays
C5_Witness ==
    /\ IsCheck
    /\ Len(watchlist_before) = 2
    /\ Len(sell_calls) = 1
    /\ Len(stock_watchlist) = 1
    /\ \E e \in PriceResults :
          /\ e.current_price > e.target_price
          /\ ~e.sell_triggered
          /\ e.stock \notin Sells
          /\ HasKey(stock_watchlist, e.stock)

\* C6: a symbol whose fetch yields 0.0 gets no result entry and no dispatch
\* call and keeps its watchlist entry; a pass in which every fetch yields 0.0
\* leaves the whole watchlist as it was.
C6_ZeroPriceSkipped ==
    IsCheck =>
        /\ \A f \in Fetches :
              f.price = 0 =>
                  /\ \A e \in Results : e.stock # f.stock
                  /\ f.stock \notin Sells
                  /\ HasKey(stock_watchlist, f.stock)
                  /\ Get(stock_watchlist, f.stock)
                         = Get(watchlist_before, f.stock)
        /\ (\A f \in Fetches : f.price = 0)
              => /\ stock_watchlist = watchlist_before
                 /\ response.results = <<>>

\* a pass over two symbols in which both fetches yield 0.0
C6_Witness ==
    /\ IsCheck
    /\ Len(watchlist_before) = 2
    /\ Len(fetch_calls) = 2
    /\ \A f \in Fetches : f.price = 0
    /\ stock_watchlist = watchlist_before
    /\ response.has_results
    /\ response.results = <<>>

\* C7: evaluating an empty watchlist returns the message "No stocks in
\* watchlist" without a results array and calls neither the fetcher nor the
\* dispatcher.
C7_EmptyWatchlist ==
    (IsCheck /\ watchlist_before = <<>>)
    => /\ response.statusCode = 200
       /\ response.message = "No stocks in watchlist"
       /\ ~response.has_results
       /\ fetch_calls = <<>>
       /\ sell_calls = <<>>
       /\ stock_watchlist = <<>>

\* a /check handled while the watchlist was empty
C7_Witness ==
    /\ IsCheck
    /\ watchlist_before = <<>>
    /\ response.message = "No stocks in watchlist"

\* fewer than 3 uppercase letters
ShortSymbol(n) == AllUpper(n) /\ Len(n) < 3

\* C8: an add request whose stockName value is shorter than 3 uppercase
\* letters, or that carries no price= parameter, returns 400 and leaves the
\* watchlist as it was.
C8_MalformedAddRejected ==
    (IsAdd /\ (ShortSymbol(NameOf(request)) \/ ~HasPriceParam(request)))
    => /\ response.statusCode = 400
       /\ stock_watchlist = watchlist_before

\* stockName=AB with a good price, refused while two symbols are listed
C8_Witness ==
    /\ IsAdd
    /\ NameOf(request) = nAB
    /\ HasPriceParam(request)
    /\ PriceOf(request) = p201
    /\ response.statusCode = 400
    /\ Len(watchlist_before) = 2
    /\ stock_watchlist = watchlist_before

\* the request names a symbol of exactly 3 or 4 uppercase letters and a
\* well-formed price
WellFormedAdd(r) ==
    /\ ValidSymbol(NameOf(r))
    /\ HasPriceParam(r)
    /\ WellFormedPrice(PriceOf(r))

\* C9 as stated: an add request is accepted only when its stockName value is
\* exactly 3 or 4 uppercase letters and its price is a well-formed number;
\* every other add request returns 400 and leaves the watchlist unchanged.
C9_OnlyWellFormedAccepted ==
    (IsAdd /\ ~WellFormedAdd(request))
    => /\ response.statusCode = 400
       /\ stock_watchlist = watchlist_before

\* C10 as stated: a POST request to any path is answered 200 "POST received"
\* and does no processing.
C10_PostDoesNothing ==
    request.method = "POST"
    => /\ response.statusCode = 200
       /\ response.message = "POST received"
       /\ stock_watchlist = watchlist_before
       /\ fetch_calls = <<>>
       /\ sell_calls = <<>>

----------------------------------------------------------------------------
(* Claims on failures inside a pass, on the stored keys and targets, and on
   the handler's return value *)

\* the entries of watchlist w whose target price is 0
ZeroTargets(w) == {w[i].stock : i \in {k \in 1..Len(w) : w[k].target = 0}}

\* C14: a failure while one symbol is processed in an evaluation pass (the
\* division by a target price of 0) is recorded as an entry {stock, error}
\* for that symbol, does not abort the pass (the response is 200 with
\* results), leaves the symbol in the watchlist with its target, and every
\* symbol of the watchlist is still fetched, and evaluated when it has a
\* price.
C14_ErrorRecordedPassContinues ==
    (IsCheck /\ watchlist_before # <<>>)
    => /\ response.statusCode = 200
       /\ response.has_results
       /\ Len(fetch_calls) = Len(watchlist_before)
       /\ \A i \in 1..Len(watchlist_before) :
              fetch_calls[i].stock = watchlist_before[i].stock
       /\ \A f \in Fetches :
              f.price > 0
              => IF f.stock \in ZeroTargets(watchlist_before)
                 THEN /\ \E e \in Results : e.stock = f.stock /\ e.has_error
                      /\ \A e \in Results : e.stock = f.stock => e.has_error
                      /\ HasKey(stock_watchlist, f.stock)
                      /\ Get(stock_watchlist, f.stock) = 0
                 ELSE \E e \in PriceResults : e.stock = f.stock

\* a pass over two symbols: the first has target 0 and gets an error entry,
\* the second is evaluated, sold and removed
C14_Witness ==
    /\ IsCheck
    /\ Len(watchlist_before) = 2
    /\ watchlist_before[1].target = 0
    /\ fetch_calls[1].price > 0
    /\ \E e \in Results : e.stock = watchlist_before[1].stock /\ e.has_error
    /\ \E e \in PriceResults :
           /\ e.stock = watchlist_before[2].stock
           /\ e.has_sell_success
           /\ e.sell_success
    /\ Len(stock_watchlist) = 1
    /\ stock_watchlist[1] = watchlist_before[1]

\* C17: in every reachable state every key of the watchlist is a string of
\* exactly 3 or 4 uppercase letters A-Z.
C17_KeysAreSymbols ==
    \A i \in 1..Len(stock_watchlist) : ValidSymbol(stock_watchlist[i].stock)

\* a malformed add (stockName=ABCDE) answered 200 has stored the key ABCD
C17_Witness ==
    /\ IsAdd
    /\ NameOf(request) = nABCDE
    /\ response.statusCode = 200
    /\ ~HasKey(watchlist_before, nABCD)
    /\ HasKey(stock_watchlist, nABCD)

\* C18 as stated: in every reachable state every target price stored in the
\* watchlist is strictly positive (an add request with price=0 does not put
\* a zero target into the watchlist), so no pass divides by zero.
C18_TargetsPositive ==
    /\ \A i \in 1..Len(stock_watchlist) : stock_watchlist[i].target > 0
    /\ \A e \in Results : ~e.has_error

\* C20 as stated: for every request, whatever its method and path, the
\* handler returns a response object carrying a status code in
\* {200, 400, 404, 500}.
C20_AlwaysResponds ==
    request # NoRequest
    => /\ response.returned
       /\ response.statusCode \in {200, 400, 404, 500}

----------------------------------------------------------------------------
(* StockMonitor's methods, each called once on its own

   An HTML document is a sequence of elements <tag class="...">text</tag>;
   marker says that the class attribute contains dyRciG.  BeautifulSoup
   works on the elements, the fallback patterns of main.py on the raw
   text. *)

tNA == <<"N","/","A">>

t0 == <<"0">>

t999999 == <<"9","9","9",",","9","9","9">>

t12345 == <<"1","2","3","4","5">>

t150_50 == <<"1","5","0",".","5","0">>

ElementTexts == {t2120, t199, tNA, t0, t999999, t12345, t150_50}

Elements ==
    [tag : {"h3"}, marker : BOOLEAN, text : ElementTexts]
    \cup [tag : {"span"}, marker : {FALSE}, text : ElementTexts]

Documents ==
    {<<>>} \cup {<<e>> : e \in Elements}
           \cup {<<e, f>> : e \in Elements, f \in Elements}

TagName(e) == IF e.tag = "h3" THEN <<"h","3">> ELSE <<"s","p","a","n">>

ClassAttr(e) ==
    IF e.marker
    THEN <<" ","c","l","a","s","s","=","'","d","y","R","c","i","G","'">>
    ELSE <<>>

\* the text of one element as it stands in html_content
RawElement(e) ==
    <<"<">> \o TagName(e) \o ClassAttr(e) \o <<">">> \o e.text
            \o <<"<","/">> \o TagName(e) \o <<">">>

\* html_content
RECURSIVE RawHtml(_)
RawHtml(doc) ==
    IF doc = <<>> THEN <<>> ELSE RawElement(Head(doc)) \o RawHtml(Tail(doc))

\* soup.find('h3', class_=re.compile(r'.*dyRciG.*')).get_text(), as a
\* sequence of at most one text
PrimaryText(doc) ==
    LET hits == {i \in 1..Len(doc) : doc[i].tag = "h3" /\ doc[i].marker}
    IN  IF hits = {} THEN <<>>
        ELSE <<doc[CHOOSE h \in hits : \A k \in hits : h <= k].text>>

DigitComma == Digit \cup {","}

DigitCommaDot == Digit \cup {",", "."}

\* s[i..] is a repetition of (?:,\d{3}) up to the end of s
RECURSIVE CommaGroups(_, _)
CommaGroups(s, i) ==
    \/ i > Len(s)
    \/ /\ i + 3 <= Len(s)
       /\ s[i] = ","
       /\ RunLen(s, i + 1, Digit) >= 3
       /\ CommaGroups(s, i + 4)

\* the whole of s matches \d{1,3}(?:,\d{3})*
FullMatchGrouped(s) ==
    /\ RunLen(s, 1, Digit) \in 1..3
    /\ CommaGroups(s, RunLen(s, 1, Digit) + 1)

\* the whole of s matches \d{1,3}(?:,\d{3})*(?:\.\d{2})?
FullMatchDecimal(s) ==
    \/ FullMatchGrouped(s)
    \/ /\ Len(s) >= 4
       /\ s[Len(s) - 2] = "."
       /\ s[Len(s) - 1] \in Digit
       /\ s[Len(s)] \in Digit
       /\ FullMatchGrouped(SubSeq(s, 1, Len(s) - 3))

\* position of the first ">" of s[i..], Len(s) + 1 when there is none
RECURSIVE NextGt(_, _)
NextGt(s, i) ==
    IF i > Len(s) \/ s[i] = ">" THEN i ELSE NextGt(s, i + 1)

\* re.findall(r'<h3[^>]*>(\d{1,3}(?:,\d{3})*(?:\.\d{2})?)</h3>', s) from
\* position i on: the group is followed by "<", which is none of its own
\* characters, so it is the whole run of digits, commas and dots
RECURSIVE FindHeadingNumbers(_, _)
FindHeadingNumbers(s, i) ==
    IF i > Len(s) THEN <<>>
    ELSE IF OccursAt(s, <<"<","h","3">>, i) /\ NextGt(s, i + 3) <= Len(s)
    THEN LET b == NextGt(s, i + 3) + 1
             n == RunLen(s, b, DigitCommaDot)
         IN  IF /\ FullMatchDecimal(SubSeq(s, b, b + n - 1))
                /\ OccursAt(s, <<"<","/","h","3",">">>, b + n)
             THEN <<SubSeq(s, b, b + n - 1)>>
                      \o FindHeadingNumbers(s, b + n + 5)
             ELSE FindHeadingNumbers(s, i + 1)
    ELSE FindHeadingNumbers(s, i + 1)

\* re.findall(r'>(\d{1,3}(?:,\d{3})*)<', s) from position i on
RECURSIVE FindTaggedNumbers(_, _)
FindTaggedNumbers(s, i) ==
    IF i > Len(s) THEN <<>>
    ELSE IF s[i] = ">"
    THEN LET n == RunLen(s, i + 1, DigitComma)
         IN  IF /\ FullMatchGrouped(SubSeq(s, i + 1, i + n))
                /\ OccursAt(s, <<"<">>, i + n + 1)
             THEN <<SubSeq(s, i + 1, i + n)>>
                      \o FindTaggedNumbers(s, i + n + 2)
             ELSE FindTaggedNumbers(s, i + 1)
    ELSE FindTaggedNumbers(s, i + 1)

\* the end of the longest repetition of (?:,\d{3}) that starts at s[j]
RECURSIVE GroupsEnd(_, _)
GroupsEnd(s, j) ==
    IF j + 3 <= Len(s) /\ s[j] = "," /\ RunLen(s, j + 1, Digit) >= 3
    THEN GroupsEnd(s, j + 4)
    ELSE j

\* re.findall(r'(\d{1,4}(?:,\d{3})*)', s) from position i on
RECURSIVE FindNumbers(_, _)
FindNumbers(s, i) ==
    IF i > Len(s) THEN <<>>
    ELSE IF s[i] \in Digit
    THEN LET d == IF RunLen(s, i, Digit) >= 4 THEN 4
                  ELSE RunLen(s, i, Digit)
             e == GroupsEnd(s, i + d)
         IN  <<SubSeq(s, i, e - 1)>> \o FindNumbers(s, e)
    ELSE FindNumbers(s, i + 1)

\* the candidates are taken from the last pattern first
FallbackCandidates_reversed(s) ==
    FindNumbers(s, 1) \o FindTaggedNumbers(s, 1) \o FindHeadingNumbers(s, 1)

\* the matches of price_patterns, in pattern order and then match order
FallbackCandidates(s) ==
    FindHeadingNumbers(s, 1) \o FindTaggedNumbers(s, 1) \o FindNumbers(s, 1)

\* what extract_price_from_html reads of a document
PageOf(doc) ==
    [h3 |-> PrimaryText(doc), cands |-> FallbackCandidates(RawHtml(doc))]

Statuses == {200, 201, 204, 404, 500}

FetchedDocuments ==
    { <<>>,
      <<[tag |-> "h3", marker |-> TRUE, text |-> t199]>>,
      <<[tag |-> "span", marker |-> FALSE, text |-> t2120]>> }

\* what the HTTP GET of one call does: it raises, it times out (an
\* exception as well), or a response arrives
Replies ==
    { [kind |-> "raise", status |-> 0], [kind |-> "timeout", status |-> 0] }
    \cup [kind : {"http"}, status : Statuses]

ExtractCalls ==
    { [NoCall EXCEPT !.fn = "extract_price_from_html", !.html = d] :
          d \in Documents }

FetchCalls ==
    { [NoCall EXCEPT !.fn = "get_stock_price", !.reply = r, !.html = d] :
          r \in Replies, d \in FetchedDocuments }

SellCalls ==
    { [NoCall EXCEPT !.fn = "send_sell_request", !.reply = r] :
          r \in Replies }

InitMonitor ==
    /\ impl \in {"index", "main"}
    /\ stock_watchlist = <<>>
    /\ request = NoRequest
    /\ response = NoneResponse
    /\ watchlist_before = <<>>
    /\ fetch_calls = <<>>
    /\ sell_calls = <<>>
    /\ call \in ExtractCalls \cup FetchCalls \cup SellCalls
    /\ workers = [t \in Threads |-> IdleWorker]
    /\ sold_ok = {}
    /\ served = 0

\* extract_price_from_html runs to its return statement
ExtractPrice ==
    /\ call.fn = "extract_price_from_html"
    /\ ~call.done
    /\ call' = [call EXCEPT
                   !.done = TRUE,
                   !.price = extract_price_from_html(impl, PageOf(call.html))]
    /\ UNCHANGED <<impl, stock_watchlist, request, response,
                   watchlist_before, fetch_calls, sell_calls, workers,
                   sold_ok, served>>

\* get_stock_price runs to its return statement
GetStockPrice ==
    /\ call.fn = "get_stock_price"
    /\ ~call.done
    /\ call' = [call EXCEPT
                   !.done = TRUE,
                   !.price = get_stock_price(impl,
                                 [kind |-> call.reply.kind,
                                  status |-> call.reply.status,
                                  page |-> PageOf(call.html)])]
    /\ UNCHANGED <<impl, stock_watchlist, request, response,
                   watchlist_before, fetch_calls, sell_calls, workers,
                   sold_ok, served>>

\* send_sell_request runs to its return statement
SendSellRequest ==
    /\ call.fn = "send_sell_request"
    /\ ~call.done
    /\ call' = [call EXCEPT
                   !.done = TRUE,
                   !.sent = send_sell_request(call.reply)]
    /\ UNCHANGED <<impl, stock_watchlist, request, response,
                   watchlist_before, fetch_calls, sell_calls, workers,
                   sold_ok, served>>

NextMonitor == ExtractPrice \/ GetStockPrice \/ SendSellRequest

SpecMonitor == InitMonitor /\ [][NextMonitor]_vars

----------------------------------------------------------------------------
(* Claims on the fetcher, the dispatcher and the extraction *)

\* C12 as stated: fetch_price never raises; it returns 0.0 for a transport
\* failure, a timeout or a non-2xx response, and for every 2xx response
\* (not only 200) the price extracted from the body.
C12_FetchOnAny2xx ==
    (call.fn = "get_stock_price" /\ call.done)
    => /\ ~call.raised
       /\ call.price =
            IF call.reply.kind = "http" /\ call.reply.status \in 200..299
            THEN extract_price_from_html(impl, PageOf(call.html))
            ELSE 0

\* C12, amended: fetch_price never raises; it returns the price extracted
\* from the body when the response has status exactly 200, and 0.0 for a
\* transport failure, a timeout and every other status, other 2xx codes
\* included.
C12_FetchOnStatus200 ==
    (call.fn = "get_stock_price" /\ call.done)
    => /\ ~call.raised
       /\ call.price =
            IF call.reply.kind = "http" /\ call.reply.status = 200
            THEN extract_price_from_html(impl, PageOf(call.html))
            ELSE 0
       /\ call.reply.kind \in {"raise", "timeout"} => call.price = 0
       /\ (call.reply.kind = "http" /\ call.reply.status # 200)
          => call.price = 0

\* a 201 response whose body carries the price 199 in the marker element:
\* get_stock_price returned 0.0
C12_Witness ==
    /\ call.fn = "get_stock_price"
    /\ call.done
    /\ call.reply = [kind |-> "http", status |-> 201]
    /\ PrimaryText(call.html) = <<t199>>
    /\ call.price = 0

\* C13: send_sell never raises and returns true if and only if the sell
\* endpoint answered with status exactly 200; any other status (other 2xx
\* codes included), any exception and any timeout returns false.
C13_SentIffStatus200 ==
    (call.fn = "send_sell_request" /\ call.done)
    => /\ ~call.raised
       /\ call.sent <=> (call.reply.kind = "http" /\ call.reply.status = 200)
       /\ call.reply.kind \in {"raise", "timeout"} => ~call.sent
       /\ (call.reply.kind = "http" /\ call.reply.status \in 201..299)
          => ~call.sent

\* the sell endpoint answered 204 and send_sell_request returned False
C13_Witness ==
    /\ call.fn = "send_sell_request"
    /\ call.done
    /\ call.reply = [kind |-> "http", status |-> 204]
    /\ ~call.sent

\* float() accepts the text: digits with at most one dot, an optional sign
NumberText(t) ==
    \/ WellFormedPrice(t)
    \/ t # <<>> /\ Head(t) \in {"-", "+"} /\ WellFormedPrice(Tail(t))

\* the value of a candidate lies in [1, 100000]
Plausible(c) ==
    /\ NumberText(RemoveCommas(c))
    /\ ParseFloat(RemoveCommas(c)).val >= 1 * Scale
    /\ ParseFloat(RemoveCommas(c)).val <= 100000 * Scale

\* C16: when the first h3 whose class contains dyRciG exists and its text
\* parses as a number once commas are removed, that number is returned
\* whatever the fallback would find; otherwise main.py returns the first
\* candidate, in pattern order then match order, whose value lies in
\* [1, 100000]; when none qualifies, and in index.py whenever the primary
\* fails, the result is 0.0.  A price obtained through the fallback lies
\* in [1, 100000].
C16_ExtractionPrecedence ==
    (call.fn = "extract_price_from_html" /\ call.done)
    => LET prim == PrimaryText(call.html)
           raw == RawHtml(call.html)
           all == FindHeadingNumbers(raw, 1) \o FindTaggedNumbers(raw, 1)
                      \o FindNumbers(raw, 1)
           hits == {i \in 1..Len(all) : Plausible(all[i])}
       IN  IF prim # <<>> /\ NumberText(RemoveCommas(Strip(prim[1])))
           THEN call.price = ParseFloat(RemoveCommas(Strip(prim[1]))).val
           ELSE IF impl = "main" /\ hits # {}
           THEN /\ call.price =
                     ParseFloat(RemoveCommas(
                         all[CHOOSE h \in hits : \A k \in hits : h <= k])).val
                /\ call.price >= 1 * Scale
                /\ call.price <= 100000 * Scale
           ELSE call.price = 0

\* main.py, no primary element: the second pattern finds 999,999, which is
\* out of range, and then 2,120, which is returned before the third pattern
\* is tried
C16_Witness ==
    /\ impl = "main"
    /\ call.fn = "extract_price_from_html"
    /\ call.done
    /\ call.html = <<[tag |-> "span", marker |-> FALSE, text |-> t999999],
                     [tag |-> "span", marker |-> FALSE, text |-> t2120]>>
    /\ call.price = 2120 * Scale

----------------------------------------------------------------------------
(* A pass taken one loop iteration at a time

   SpecSteps runs handler on one thread, as the deployment does: requests
   follow one another and a pass is cut into its loop iterations, so that
   the order of fetches, dispatches and removals inside a pass shows.
   SpecThreads runs handler on two threads that share stock_watchlist; the
   source takes no lock.  A dict that is resized while it is iterated makes
   the iterator raise RuntimeError; when keys were inserted and deleted but
   the size is the same again, what the iterator does next is left open
   (it raises, stops, or yields any item). *)

StepFetchOutcomes ==
    {fo \in FetchOutcomes :
        fo.kind = "http" /\ (fo.status = 404 \/ fo.page.h3 # <<>>)}

StepSellOutcomes == {so \in SellOutcomes : so.kind = "http"}

StepRequests ==
    {Req("GET", sRestart, <<>>), Req("GET", sCheck, <<>>)}
    \cup {Req("GET", PricePath(n, p), sPrice \o p) :
             n \in {nABC, nABCD}, p \in {p201, t0}}

\* the keys of the dict in insertion order
KeySeq(w) == [i \in 1..Len(w) |-> w[i].stock]

\* thread t has inserted or deleted keys (changed): the iterators of the
\* other threads are no longer valid
MarkDirty(ws, t, changed) ==
    [u \in Threads |->
        IF u # t /\ changed /\ ws[u].pc = "loop"
        THEN [ws[u] EXCEPT !.dirty = TRUE]
        ELSE ws[u]]

\* the item is deleted as soon as its sell succeeded
AfterItem_deleteNow(w, entry, one) ==
    IF one.remove THEN DelAll(w, {entry.stock}) ELSE w

\* the dict after one loop iteration: stocks_to_remove.append(stock_symbol)
\* defers the deletion, the dict is not touched
AfterItem(w, entry, one) == w

\* the positions the iterator may yield next
NextItems(wk, w) ==
    IF ~wk.dirty
    THEN IF wk.pos < wk.size THEN {wk.pos + 1} ELSE {}
    ELSE IF Len(w) = wk.size /\ wk.pos < wk.size THEN 1..Len(w) ELSE {}

\* the iterator may be exhausted
LoopEnds(wk, w) ==
    IF ~wk.dirty THEN wk.pos = wk.size ELSE Len(w) = wk.size

\* for stock in stocks_to_remove: del stock_watchlist[stock], which raises
\* KeyError (ok = FALSE) at the first key that is not there
RECURSIVE RemoveInOrder(_, _)
RemoveInOrder(w, ks) ==
    IF ks = <<>> THEN [ok |-> TRUE, watchlist |-> w]
    ELSE IF HasKey(w, Head(ks))
    THEN RemoveInOrder(DelAll(w, {Head(ks)}), Tail(ks))
    ELSE [ok |-> FALSE, watchlist |-> w]

\* stocks_to_remove, in the order of the appends
StocksToRemove(acc) == SelectSeq(acc.sold, LAMBDA k : k \in acc.remove)

\* one more request taken; the count stops at MaxRequests
Taken(n) == IF n < MaxRequests THEN n + 1 ELSE n

RestartBy(t) ==
    /\ workers[t].pc = "idle"
    /\ \E r \in StepRequests \cap Routed[impl, "restart"] :
       \E h \in {handle_restart(stock_watchlist)} :
           /\ stock_watchlist' = h.watchlist
           /\ workers' =
                MarkDirty([workers EXCEPT
                              ![t] = [IdleWorker EXCEPT
                                         !.request = r,
                                         !.response = h.response]],
                          t, KeySeq(h.watchlist) # KeySeq(stock_watchlist))
    /\ served' = Taken(served)
    /\ UNCHANGED <<impl, request, response, watchlist_before, fetch_calls,
                   sell_calls, call, sold_ok>>

AddStockBy(t) ==
    /\ workers[t].pc = "idle"
    /\ \E r \in StepRequests \cap Routed[impl, "add"] :
       \E h \in {handle_add_stock(impl, stock_watchlist, r.path, r.query)} :
           /\ stock_watchlist' = h.watchlist
           /\ workers' =
                MarkDirty([workers EXCEPT
                              ![t] = [IdleWorker EXCEPT
                                         !.request = r,
                                         !.response = h.response]],
                          t, KeySeq(h.watchlist) # KeySeq(stock_watchlist))
           /\ sold_ok' = IF h.response.statusCode = 200
                         THEN sold_ok \ {h.response.stock}
                         ELSE sold_ok
    /\ served' = Taken(served)
    /\ UNCHANGED <<impl, request, response, watchlist_before, fetch_calls,
                   sell_calls, call>>

\* handle_check_stocks up to the for statement: the empty watchlist is
\* answered at once, otherwise the iterator is created
PassStart(t) ==
    /\ workers[t].pc = "idle"
    /\ \E r \in StepRequests \cap Routed[impl, "check"] :
           workers' =
             [workers EXCEPT
                 ![t] = IF stock_watchlist = <<>>
                        THEN [IdleWorker EXCEPT
                                 !.request = r,
                                 !.response =
                                     handle_check_stocks(impl, <<>>, <<>>,
                                                         <<>>).response]
                        ELSE [IdleWorker EXCEPT
                                 !.pc = "loop",
                                 !.request = r,
                                 !.started = stock_watchlist,
                                 !.sold_before = sold_ok,
                                 !.size = Len(stock_watchlist)]]
    /\ served' = Taken(served)
    /\ UNCHANGED <<impl, stock_watchlist, request, response,
                   watchlist_before, fetch_calls, sell_calls, call, sold_ok>>

\* one iteration of the for loop: the next item, its fetch, its evaluation
\* and its dispatch
PassItem(t) ==
    /\ workers[t].pc = "loop"
    /\ \E i \in NextItems(workers[t], stock_watchlist) :
       \E fo \in StepFetchOutcomes :
       \E so \in IF SellCalled(stock_watchlist[i], get_stock_price(impl, fo))
                 THEN StepSellOutcomes ELSE {NotCalled} :
       \E one \in {ProcessStock(impl, stock_watchlist[i], fo, so)} :
           /\ workers' =
                [workers EXCEPT
                    ![t].pos = @ + 1,
                    ![t].acc = Accumulate(@, stock_watchlist[i].stock,
                                          get_stock_price(impl, fo), one)]
           /\ stock_watchlist' =
                AfterItem(stock_watchlist, stock_watchlist[i], one)
           /\ sold_ok' = IF one.remove
                         THEN sold_ok \cup {stock_watchlist[i].stock}
                         ELSE sold_ok
    /\ UNCHANGED <<impl, request, response, watchlist_before, fetch_calls,
                   sell_calls, call, served>>

\* the for statement raises RuntimeError (the dict changed during the
\* iteration); handle_check_stocks answers 500
PassRaise(t) ==
    /\ workers[t].pc = "loop"
    /\ workers[t].dirty
    /\ workers' =
         [workers EXCEPT
             ![t].pc = "idle",
             ![t].response =
                 ErrorResponse(500, "dictionary changed size during iteration")]
    /\ UNCHANGED <<impl, stock_watchlist, request, response,
                   watchlist_before, fetch_calls, sell_calls, call, sold_ok,
                   served>>

\* the loop is over: the deletions, then the response
PassFinish(t) ==
    /\ workers[t].pc = "loop"
    /\ LoopEnds(workers[t], stock_watchlist)
    /\ \E rem \in {RemoveInOrder(stock_watchlist,
                                 StocksToRemove(workers[t].acc))} :
       \E h \in {IF rem.ok
                 THEN CheckResponse(PassResult(stock_watchlist,
                                               workers[t].acc))
                 ELSE [response |-> ErrorResponse(500, "KeyError"),
                       watchlist |-> rem.watchlist]} :
           /\ stock_watchlist' = h.watchlist
           /\ workers' =
                MarkDirty([workers EXCEPT
                              ![t].pc = "idle",
                              ![t].response = h.response],
                          t, KeySeq(h.watchlist) # KeySeq(stock_watchlist))
    /\ UNCHANGED <<impl, request, response, watchlist_before, fetch_calls,
                   sell_calls, call, sold_ok, served>>

NextSteps ==
    RestartBy(1) \/ AddStockBy(1) \/ PassStart(1) \/ PassItem(1)
        \/ PassFinish(1)

SpecSteps == Init /\ [][NextSteps]_vars

\* the two threads take MaxRequests requests between them
NextThreads ==
    \E t \in Threads :
        \/ served < MaxRequests /\ RestartBy(t)
        \/ served < MaxRequests /\ AddStockBy(t)
        \/ served < MaxRequests /\ PassStart(t)
        \/ PassItem(t)
        \/ PassRaise(t)
        \/ PassFinish(t)

SpecThreads == Init /\ [][NextThreads]_vars

----------------------------------------------------------------------------
(* Claims on the order of events inside a pass and between passes *)

\* the thread has been through the loop of a pass and has its response
FinishedPass(wk) ==
    /\ wk.pc = "idle"
    /\ wk.request # NoRequest
    /\ Route(impl, wk.request) = "check"
    /\ wk.started # <<>>

NoDuplicate(q) == \A i, j \in 1..Len(q) : i # j => q[i] # q[j]

\* the watchlist w without the symbols of the set ks
Without(w, ks) == SelectSeq(w, LAMBDA e : e.stock \notin ks)

\* C15: in one evaluation pass every symbol that was in the watchlist at
\* pass start is fetched exactly once, in order, and dispatched at most
\* once; no watchlist entry is removed while the loop runs, and when the
\* pass is over the watchlist is the one at pass start without the symbols
\* sold successfully, every later symbol having been fetched.
C15_FetchOnceRemoveLast ==
    LET wk == workers[1]
    IN  /\ wk.pc = "loop"
           => /\ stock_watchlist = wk.started
              /\ wk.pos <= Len(wk.started)
              /\ Len(wk.acc.fetched) = wk.pos
              /\ \A i \in 1..wk.pos :
                     wk.acc.fetched[i].stock = wk.started[i].stock
              /\ NoDuplicate(wk.acc.sold)
              /\ \A i \in 1..Len(wk.acc.sold) :
                     \E j \in 1..wk.pos :
                         wk.acc.sold[i] = wk.started[j].stock
        /\ FinishedPass(wk)
           => /\ wk.response.statusCode = 200
              /\ Len(wk.acc.fetched) = Len(wk.started)
              /\ \A i \in 1..Len(wk.started) :
                     wk.acc.fetched[i].stock = wk.started[i].stock
              /\ NoDuplicate(wk.acc.sold)
              /\ stock_watchlist = Without(wk.started, wk.acc.remove)

\* a pass over two symbols whose first symbol was sold successfully: the
\* second was fetched all the same, and only the first is gone afterwards
C15_Witness ==
    LET wk == workers[1]
    IN  /\ FinishedPass(wk)
        /\ Len(wk.started) = 2
        /\ wk.acc.remove = {wk.started[1].stock}
        /\ wk.acc.fetched[2].stock = wk.started[2].stock
        /\ wk.acc.fetched[2].price > 0
        /\ stock_watchlist = <<wk.started[2]>>

\* C19: under sequential request handling, once a pass has obtained a
\* successful sell dispatch for symbol s, no later pass fetches or
\* dispatches s unless s has been added again in between: between requests
\* no symbol of sold_ok is in the watchlist, and a pass touches no symbol
\* that was in sold_ok when it started.
C19_SoldOnceNotTouchedAgain ==
    LET wk == workers[1]
    IN  /\ wk.pc = "idle"
           => \A i \in 1..Len(stock_watchlist) :
                  stock_watchlist[i].stock \notin sold_ok
        /\ (wk.pc = "loop" \/ FinishedPass(wk))
           => /\ \A i \in 1..Len(wk.acc.fetched) :
                     wk.acc.fetched[i].stock \notin wk.sold_before
              /\ \A i \in 1..Len(wk.acc.sold) :
                     wk.acc.sold[i] \notin wk.sold_before

\* a pass that fetched and dispatched a symbol while another symbol, sold
\* by an earlier pass and not added since, stayed untouched
C19_Witness ==
    LET wk == workers[1]
    IN  /\ FinishedPass(wk)
        /\ wk.sold_before # {}
        /\ wk.acc.fetched # <<>>
        /\ wk.acc.sold # <<>>
        /\ sold_ok # wk.sold_before

\* C11 as stated: with requests handled on concurrent threads, no add or
\* restart takes effect between the start and the end of a pass, every
\* /check completes with status 200, and its remaining_watchlist is the
\* watchlist at pass start minus the symbols that pass sold successfully.
C11_PassIsExclusive ==
    \A t \in Threads :
        LET wk == workers[t]
        IN  /\ wk.pc = "loop" => stock_watchlist = wk.started
            /\ FinishedPass(wk)
               => /\ wk.response.statusCode = 200
                  /\ wk.response.watchlist =
                         Without(wk.started, wk.acc.remove)

====
